---- MODULE Spec2Model ----
(***************************************************************************)
(* The IEC 61131-3 Structured Text lexer (pygments/lexers/iecst.py) as a   *)
(* state machine: the rule table IecstLexer.tokens, transliterated pattern *)
(* by pattern, driven by the stateful first-match scanner the lexer        *)
(* inherits (RegexLexer).  A text is a sequence of one-character strings;  *)
(* the cursor `pos` counts the characters consumed so far, so the          *)
(* character at the cursor is input[pos + 1].                              *)
(***************************************************************************)
EXTENDS Integers, Sequences, FiniteSets, TLC

VARIABLES input, pos, stack, out, hit, last

vars == <<input, pos, stack, out, hit, last>>

(***************************************************************************)
(* Character classes of Python's re module (flags: re.MULTILINE only, so   *)
(* matching is case sensitive and `.` does not match a newline).           *)
(***************************************************************************)
Digit == {"0", "1", "2", "3", "4", "5", "6", "7", "8", "9"}

OctDigit == {"0", "1", "2", "3", "4", "5", "6", "7"}

BinDigit == {"0", "1"}

Upper ==
  {"A", "B", "C", "D", "E", "F", "G", "H", "I", "J", "K", "L", "M",
   "N", "O", "P", "Q", "R", "S", "T", "U", "V", "W", "X", "Y", "Z"}

Lower ==
  {"a", "b", "c", "d", "e", "f", "g", "h", "i", "j", "k", "l", "m",
   "n", "o", "p", "q", "r", "s", "t", "u", "v", "w", "x", "y", "z"}

HexDigit ==
  Digit \cup {"a", "b", "c", "d", "e", "f", "A", "B", "C", "D", "E", "F"}

\* \w
WordChar == Upper \cup Lower \cup Digit \cup {"_"}

\* \s
Space == {" ", "\t", "\n", "\r", "\f"}

(***************************************************************************)
(* Regular expressions as syntax trees.                                    *)
(***************************************************************************)
\* [c...]
Set(c) == [t |-> "set", c |-> c]

\* [^c...]
NSet(c) == [t |-> "nset", c |-> c]

\* a literal run of characters
Lit(w) == [t |-> "lit", w |-> w]

\* r1 r2 ... rn
Cat(a) == [t |-> "cat", a |-> a]

\* r1 | r2 | ... | rn
Alt(a) == [t |-> "alt", a |-> a]

\* r{lo,hi}, greedy
Rep(r, lo, hi) == [t |-> "rep", r |-> r, lo |-> lo, hi |-> hi]

\* r?
Opt(r) == Rep(r, 0, 1)

\* r* and r+, greedy (hi = -1: no upper limit)
Star(r) == Rep(r, 0, -1)

Plus(r) == Rep(r, 1, -1)

\* (?!r)
NotAhead(r) == [t |-> "nla", r |-> r]

\* (?<=[c...])
Behind(c) == [t |-> "lb", c |-> c]

\* \b
WordB == [t |-> "wb"]

\* any character, newline included: [\w\W]
AnyChar == NSet({})

\* . without re.DOTALL
Dot == NSet({"\n"})

\* the alternation words() builds from a word list
WordList(w) == [t |-> "words", w |-> w]

\* w1|w2|...|wn, literal words tried in the order given
LitAlt(w) == [t |-> "litalt", w |-> w]

(***************************************************************************)
(* Matching.  Ends(r, s, p) is the sequence of cursor positions at which a *)
(* match of r that starts at cursor p of text s can end, in the order in   *)
(* which a backtracking matcher tries them (greedy repetition: longest     *)
(* first; alternation: left to right).  The match re.match() reports for a *)
(* whole pattern is the first of them.                                     *)
(***************************************************************************)
Range(q) == {q[i] : i \in DOMAIN q}

\* a followed by the positions of b that a does not already hold
Merge(a, b) ==
  IF a = <<>> THEN b
  ELSE IF b = <<>> THEN a
  ELSE a \o SelectSeq(b, LAMBDA x : x \notin Range(a))

IsWordAt(s, i) == i >= 1 /\ i <= Len(s) /\ s[i] \in WordChar

StartsWith(s, p, w) ==
  /\ p + Len(w) <= Len(s)
  /\ s[p + 1] = w[1]
  /\ \A i \in 2..Len(w) : s[p + i] = w[i]

\* the members of a set of numbers, largest first
RECURSIVE Descending(_)
Descending(S) ==
  IF S = {} THEN <<>>
  ELSE LET m == CHOOSE x \in S : \A y \in S : y <= x
       IN  <<m>> \o Descending(S \ {m})

RECURSIVE Ends(_, _, _), EndsAll(_, _, _), EndsCat(_, _, _),
          EndsAlt(_, _, _), EndsRep(_, _, _, _, _),
          EndsRepAll(_, _, _, _, _), RepChain(_, _, _, _)

\* The lists below are walked by halves, first half first, which keeps
\* the order of a walk from left to right.

\* the ends of r from each start of `starts`, in order
EndsAll(r, s, starts) ==
  CASE Len(starts) = 0 -> <<>>
    [] Len(starts) = 1 -> Ends(r, s, starts[1])
    [] OTHER ->
         LET mid == Len(starts) \div 2
         IN  Merge(EndsAll(r, s, SubSeq(starts, 1, mid)),
                   EndsAll(r, s, SubSeq(starts, mid + 1, Len(starts))))

\* the patterns of `a` one after the other
EndsCat(a, s, starts) ==
  CASE Len(a) = 0 \/ Len(starts) = 0 -> starts
    [] Len(a) = 1 -> EndsAll(a[1], s, starts)
    [] OTHER ->
         LET mid == Len(a) \div 2
         IN  EndsCat(SubSeq(a, mid + 1, Len(a)), s,
                     EndsCat(SubSeq(a, 1, mid), s, starts))

\* the patterns of `a` as alternatives, leftmost first
EndsAlt(a, s, p) ==
  CASE Len(a) = 0 -> <<>>
    [] Len(a) = 1 -> Ends(a[1], s, p)
    [] OTHER ->
         LET mid == Len(a) \div 2
         IN  Merge(EndsAlt(SubSeq(a, 1, mid), s, p),
                   EndsAlt(SubSeq(a, mid + 1, Len(a)), s, p))

\* one iteration of r from p; each iteration consumes at least one character
Once(r, s, p) == SelectSeq(Ends(r, s, p), LAMBDA e : e > p)

\* The cursor positions of at most k iterations of r from p, made for as
\* long as an iteration has exactly one way to end: the deepest first, p
\* last.
RepChain(r, k, s, p) ==
  CASE k = 0 -> <<p>>
    [] k = 1 ->
         LET once == Once(r, s, p)
         IN  IF Len(once) = 1 THEN once \o <<p>> ELSE <<p>>
    [] OTHER ->
         LET half  == k \div 2
             first == RepChain(r, half, s, p)
         IN  IF Len(first) <= half THEN first
             ELSE RepChain(r, k - half, s, first[1]) \o Tail(first)

\* r{lo,hi}, greedy: one more iteration first, then, when lo is reached,
\* stopping here.  hi = -1 stands for no upper limit.  The iterations with
\* one way to end are followed as a chain; where an iteration has several
\* ways to end, each is continued in turn.
EndsRep(r, lo, hi, s, p) ==
  LET max    == IF hi < 0 THEN Len(s) - p ELSE hi
      chain  == RepChain(r, max, s, p)
      n      == Len(chain) - 1
      branch == IF n = max THEN <<>> ELSE Once(r, s, chain[1])
      lo1    == IF lo > n + 1 THEN lo - n - 1 ELSE 0
      hi1    == IF hi < 0 THEN hi ELSE hi - n - 1
      stops  == IF lo > n THEN <<>> ELSE SubSeq(chain, 1, n + 1 - lo)
  IN  IF branch = <<>> THEN stops
      ELSE Merge(EndsRepAll(r, lo1, hi1, s, branch), stops)

EndsRepAll(r, lo, hi, s, starts) ==
  CASE Len(starts) = 0 -> <<>>
    [] Len(starts) = 1 -> EndsRep(r, lo, hi, s, starts[1])
    [] OTHER ->
         LET mid == Len(starts) \div 2
         IN  Merge(EndsRepAll(r, lo, hi, s, SubSeq(starts, 1, mid)),
                   EndsRepAll(r, lo, hi, s,
                              SubSeq(starts, mid + 1, Len(starts))))

Ends(r, s, p) ==
  CASE r.t = "set" ->
         IF p < Len(s) /\ s[p + 1] \in r.c THEN <<p + 1>> ELSE <<>>
    [] r.t = "nset" ->
         IF p < Len(s) /\ s[p + 1] \notin r.c THEN <<p + 1>> ELSE <<>>
    [] r.t = "lit" ->
         IF StartsWith(s, p, r.w) THEN <<p + Len(r.w)>> ELSE <<>>
    [] r.t = "words" ->
         Descending({Len(r.w[i]) + p : i \in
                       {j \in DOMAIN r.w : StartsWith(s, p, r.w[j])}})
    [] r.t = "litalt" ->
         LET here == SelectSeq(r.w, LAMBDA w : StartsWith(s, p, w))
         IN  [i \in 1..Len(here) |-> p + Len(here[i])]
    [] r.t = "cat" -> EndsCat(r.a, s, <<p>>)
    [] r.t = "alt" -> EndsAlt(r.a, s, p)
    [] r.t = "rep" -> EndsRep(r.r, r.lo, r.hi, s, p)
    [] r.t = "nla" -> IF Ends(r.r, s, p) = <<>> THEN <<p>> ELSE <<>>
    [] r.t = "lb" -> IF p >= 1 /\ s[p] \in r.c THEN <<p>> ELSE <<>>
    [] r.t = "wb" ->
         IF IsWordAt(s, p) # IsWordAt(s, p + 1) THEN <<p>> ELSE <<>>

(***************************************************************************)
(* Rules.  A rule pairs a pattern with an action and an optional new       *)
(* state: a token kind for the whole match, or bygroups(kinds) with the    *)
(* pattern given as its capture groups in order (each rule of the table    *)
(* that uses bygroups is a plain concatenation of its groups), or          *)
(* default(state), which matches the empty string and only changes state.  *)
(***************************************************************************)
NoState == "-"

Rule(pat, kind) ==
  [t |-> "single", groups |-> <<pat>>, kinds |-> <<kind>>, new |-> NoState]

RuleTo(pat, kind, new) ==
  [t |-> "single", groups |-> <<pat>>, kinds |-> <<kind>>, new |-> new]

ByGroups(groups, kinds) ==
  [t |-> "groups", groups |-> groups, kinds |-> kinds, new |-> NoState]

ByGroupsTo(groups, kinds, new) ==
  [t |-> "groups", groups |-> groups, kinds |-> kinds, new |-> new]

Default(new) ==
  [t |-> "default", groups |-> <<>>, kinds |-> <<>>, new |-> new]

Include(name) == [t |-> "include", name |-> name]

\* words(list, suffix=...)
Words(list, suffix) == Cat(<<WordList(list), suffix>>)

(***************************************************************************)
(* The pattern fragments of IecstLexer.                                    *)
(***************************************************************************)
Backslash == Set({"\\"})

\* \\\n
BackslashNewline == Lit(<<"\\", "\n">>)

\* [0-9a-fA-F](\'?[0-9a-fA-F])*
hexpart == Cat(<<Set(HexDigit), Star(Cat(<<Opt(Set({"'"})), Set(HexDigit)>>))>>)

\* \d(\'?\d)*
decpart == Cat(<<Set(Digit), Star(Cat(<<Opt(Set({"'"})), Set(Digit)>>))>>)

\* (([uU][lL]{0,2})|[lL]{1,2}[uU]?)?
intsuffix ==
  Opt(Alt(<<Cat(<<Set({"u", "U"}), Rep(Set({"l", "L"}), 0, 2)>>),
            Cat(<<Rep(Set({"l", "L"}), 1, 2), Opt(Set({"u", "U"}))>>)>>))

\* (?!\d)(?:[\w$]|\\u[0-9a-fA-F]{4}|\\U[0-9a-fA-F]{8})+
ident ==
  Cat(<<NotAhead(Set(Digit)),
        Plus(Alt(<<Set(WordChar \cup {"$"}),
                   Cat(<<Lit(<<"\\", "u">>), Rep(Set(HexDigit), 4, 4)>>),
                   Cat(<<Lit(<<"\\", "U">>), Rep(Set(HexDigit), 8, 8)>>)>>))>>)

\* //(?:.|(?<=\\)\n)*\n
comment_single ==
  Cat(<<Lit(<<"/", "/">>),
        Star(Alt(<<Dot, Cat(<<Behind({"\\"}), Set({"\n"})>>)>>)),
        Set({"\n"})>>)

\* \((?:\\\n)?[*](?:[^*]|[*](?!(?:\\\n)?/))*[*](?:\\\n)?\)
comment_multiline ==
  Cat(<<Set({"("}), Opt(BackslashNewline), Set({"*"}),
        Star(Alt(<<NSet({"*"}),
                   Cat(<<Set({"*"}),
                         NotAhead(Cat(<<Opt(BackslashNewline),
                                        Set({"/"})>>))>>)>>)),
        Set({"*"}), Opt(BackslashNewline), Set({")"})>>)

\* /(\\\n)?[*][\w\W]*
comment_open ==
  Cat(<<Set({"/"}), Opt(BackslashNewline), Set({"*"}), Star(AnyChar)>>)

keyword_words ==
  <<
    <<"I","F">>, <<"T","H","E","N">>, <<"E","L","S","I","F">>,
    <<"E","L","S","E">>, <<"E","N","D","_","I","F">>, <<"F","O","R">>,
    <<"D","O">>, <<"E","N","D","_","F","O","R">>, <<"W","H","I","L","E">>,
    <<"E","N","D","_","W","H","I","L","E">>, <<"R","E","P","E","A","T">>,
    <<"U","N","T","I","L">>, <<"B","R","E","A","K">>,
    <<"C","O","N","T","I","N","U","E">>, <<"R","E","T","U","R","N">>,
    <<"E","N","D","_","R","E","P","E","A","T">>,
    <<"C","O","N","S","T","A","N","T">>, <<"V","A","R">>,
    <<"V","A","R","_","I","N","P","U","T">>,
    <<"V","A","R","_","O","U","T","P","U","T">>,
    <<"V","A","R","_","S","T","A","T">>,
    <<"V","A","R","_","I","N","_","O","U","T">>, <<"O","F">>,
    <<"V","A","R","_","G","L","O","B","A","L">>,
    <<"E","N","D","_","V","A","R">>, <<"P","U","B","L","I","C">>,
    <<"P","R","I","V","A","T","E">>, <<"I","N","T","E","R","N","A","L">>,
    <<"P","R","O","T","E","C","T","E","D">>,
    <<"F","U","N","C","T","I","O","N">>, <<"P","R","O","G","R","A","M">>,
    <<"F","U","N","C","T","I","O","N","_","B","L","O","C","K">>,
    <<"C","A","S","E">>, <<"E","N","D","_","C","A","S","E">>,
    <<"E","N","D","_","F","U","N","C","T","I","O","N">>,
    <<"E","N","D","_","P","R","O","G","R","A","M">>,
    <<"E","N","D","_","F","U","N","C","T","I","O","N","_","B","L","O","C","K">>,
    <<"M","O","D">>, <<"A","B","S">>, <<"A","C","O","S">>,
    <<"A","S","I","N">>, <<"A","T","A","N">>, <<"C","O","S">>,
    <<"E","X","P">>, <<"E","X","P","T">>, <<"L","N">>, <<"L","O","G">>,
    <<"S","I","N">>, <<"S","Q","R","T">>, <<"T","A","N">>, <<"S","E","L">>,
    <<"M","A","X">>, <<"M","I","N">>, <<"L","I","M","I","T">>,
    <<"M","U","X">>, <<"S","H","L">>, <<"S","H","R">>, <<"R","O","L">>,
    <<"R","O","R">>, <<"I","N","D","E","X","O","F">>,
    <<"S","I","Z","E","O","F">>, <<"A","D","R">>, <<"R","E","F">>,
    <<"A","D","R","I","N","S","T">>, <<"B","I","T","A","D","R">>,
    <<"A","D","D">>, <<"M","U","L">>, <<"D","I","V">>, <<"S","U","B">>,
    <<"T","R","U","N","C">>, <<"M","O","V","E">>
  >>

type_words ==
  <<
    <<"B","O","O","L">>, <<"B","Y","T","E">>, <<"W","O","R","D">>,
    <<"D","W","O","R","D">>, <<"L","W","O","R","D">>, <<"S","I","N","T">>,
    <<"U","S","I","N","T">>, <<"I","N","T">>, <<"U","I","N","T">>,
    <<"D","I","N","T">>, <<"U","D","I","N","T">>, <<"U","D","I","N","T">>,
    <<"L","I","N","T">>, <<"U","L","I","N","T">>, <<"R","E","A","L">>,
    <<"L","R","E","A","L">>, <<"S","T","R","I","N","G">>,
    <<"W","S","T","R","I","N","G">>, <<"T","I","M","E">>,
    <<"L","T","I","M","E">>, <<"T","I","M","E","_","O","F","_","D","A","Y">>,
    <<"T","O","D">>, <<"D","A","T","E">>,
    <<"D","A","T","E","_","A","N","D","_","T","I","M","E">>, <<"D","T">>,
    <<"P","O","I","N","T","E","R">>, <<"A","R","R","A","Y">>,
    <<"R","E","F","E","R","E","N","C","E">>
  >>

\* ([LuU]|u8)?
affix == Opt(Alt(<<Set({"L", "u", "U"}), Lit(<<"u", "8">>)>>))

\* (\\.|\\[0-7]{1,3}|\\x[a-fA-F0-9]{1,2}|[^\\\'\n])
char_body ==
  Alt(<<Cat(<<Backslash, Dot>>),
        Cat(<<Backslash, Rep(Set(OctDigit), 1, 3)>>),
        Cat(<<Backslash, Set({"x"}), Rep(Set(HexDigit), 1, 2)>>),
        NSet({"\\", "'", "\n"})>>)

\* 0[xX](hexpart\.hexpart|\.hexpart|hexpart)[pP][+-]?hexpart[lL]?
hex_float ==
  Cat(<<Set({"0"}), Set({"x", "X"}),
        Alt(<<Cat(<<hexpart, Set({"."}), hexpart>>),
              Cat(<<Set({"."}), hexpart>>),
              hexpart>>),
        Set({"p", "P"}), Opt(Set({"+", "-"})), hexpart,
        Opt(Set({"l", "L"}))>>)

\* (-)?(decpart\.decpart|\.decpart|decpart)[eE][+-]?decpart[fFlL]?
exp_float ==
  Cat(<<Opt(Set({"-"})),
        Alt(<<Cat(<<decpart, Set({"."}), decpart>>),
              Cat(<<Set({"."}), decpart>>),
              decpart>>),
        Set({"e", "E"}), Opt(Set({"+", "-"})), decpart,
        Opt(Set({"f", "F", "l", "L"}))>>)

\* (-)?((decpart\.(decpart)?|\.decpart)[fFlL]?)|(decpart[fFlL])
dec_float ==
  Alt(<<Cat(<<Opt(Set({"-"})),
              Alt(<<Cat(<<decpart, Set({"."}), Opt(decpart)>>),
                    Cat(<<Set({"."}), decpart>>)>>),
              Opt(Set({"f", "F", "l", "L"}))>>),
        Cat(<<decpart, Set({"f", "F", "l", "L"})>>)>>)

\* (-)?0[xX]hexpart intsuffix
hex_int ==
  Cat(<<Opt(Set({"-"})), Set({"0"}), Set({"x", "X"}), hexpart, intsuffix>>)

\* (-)?0[bB][01](\'?[01])* intsuffix
bin_int ==
  Cat(<<Opt(Set({"-"})), Set({"0"}), Set({"b", "B"}), Set(BinDigit),
        Star(Cat(<<Opt(Set({"'"})), Set(BinDigit)>>)), intsuffix>>)

\* (-)?0(\'?[0-7])+ intsuffix
oct_int ==
  Cat(<<Opt(Set({"-"})), Set({"0"}),
        Plus(Cat(<<Opt(Set({"'"})), Set(OctDigit)>>)), intsuffix>>)

\* (-)?decpart intsuffix
dec_int == Cat(<<Opt(Set({"-"})), decpart, intsuffix>>)

\* :=|:|\+|-|\*|/|>|<
operator ==
  Alt(<<Lit(<<":", "=">>), Set({":"}), Set({"+"}), Set({"-"}), Set({"*"}),
        Set({"/"}), Set({">"}), Set({"<"})>>)

\* BOOL|BYTE|D?L?WORD|L?TIME|DATE|DT|TOD|W?CHAR|W?STRING|U?S?D?L?INT|L?REAL
conv_type ==
  Alt(<<Lit(<<"B", "O", "O", "L">>),
        Lit(<<"B", "Y", "T", "E">>),
        Cat(<<Opt(Set({"D"})), Opt(Set({"L"})), Lit(<<"W", "O", "R", "D">>)>>),
        Cat(<<Opt(Set({"L"})), Lit(<<"T", "I", "M", "E">>)>>),
        Lit(<<"D", "A", "T", "E">>),
        Lit(<<"D", "T">>),
        Lit(<<"T", "O", "D">>),
        Cat(<<Opt(Set({"W"})), Lit(<<"C", "H", "A", "R">>)>>),
        Cat(<<Opt(Set({"W"})), Lit(<<"S", "T", "R", "I", "N", "G">>)>>),
        Cat(<<Opt(Set({"U"})), Opt(Set({"S"})), Opt(Set({"D"})),
              Opt(Set({"L"})), Lit(<<"I", "N", "T">>)>>),
        Cat(<<Opt(Set({"L"})), Lit(<<"R", "E", "A", "L">>)>>)>>)

\* \b(?:AND|OR|NOT|TO_(conv_type)|(ANY|conv_type)_TO_(conv_type))\b
operator_word ==
  Cat(<<WordB,
        Alt(<<Lit(<<"A", "N", "D">>),
              Lit(<<"O", "R">>),
              Lit(<<"N", "O", "T">>),
              Cat(<<Lit(<<"T", "O", "_">>), conv_type>>),
              Cat(<<Alt(<<Lit(<<"A", "N", "Y">>), conv_type>>),
                    Lit(<<"_", "T", "O", "_">>), conv_type>>)>>),
        WordB>>)

\* (true|false|null)\b
builtin ==
  Cat(<<Alt(<<Lit(<<"t", "r", "u", "e">>),
              Lit(<<"f", "a", "l", "s", "e">>),
              Lit(<<"n", "u", "l", "l">>)>>),
        WordB>>)

\* \\([\\abfnrtv"\']|x[a-fA-F0-9]{2,4}|u[a-fA-F0-9]{4}|U[a-fA-F0-9]{8}|[0-7]{1,3})
string_escape ==
  Cat(<<Backslash,
        Alt(<<Set({"\\", "a", "b", "f", "n", "r", "t", "v", "\"", "'"}),
              Cat(<<Set({"x"}), Rep(Set(HexDigit), 2, 4)>>),
              Cat(<<Set({"u"}), Rep(Set(HexDigit), 4, 4)>>),
              Cat(<<Set({"U"}), Rep(Set(HexDigit), 8, 8)>>),
              Rep(Set(OctDigit), 1, 3)>>)>>)

(***************************************************************************)
(* IecstLexer.tokens, state by state.                                      *)
(***************************************************************************)
\* tokens_whitespace with [^\S\n]* in place of [^\S\n]+
tokens_whitespace_star ==
  <<Rule(Set({"\n"}), "Whitespace"),
    Rule(Star(Set(Space \ {"\n"})), "Whitespace"),
    Rule(BackslashNewline, "Text"),
    Rule(comment_single, "Comment.Single"),
    Rule(comment_multiline, "Comment.Multiline"),
    Rule(comment_open, "Comment.Multiline")>>

tokens_whitespace ==
  <<Rule(Set({"\n"}), "Whitespace"),
    Rule(Plus(Set(Space \ {"\n"})), "Whitespace"),
    Rule(BackslashNewline, "Text"),
    Rule(comment_single, "Comment.Single"),
    Rule(comment_multiline, "Comment.Multiline"),
    Rule(comment_open, "Comment.Multiline")>>

\* tokens_keywords as a plain alternation of the words in declared order,
\* without the \b suffix
tokens_keywords_plain == <<Rule(LitAlt(keyword_words), "Keyword")>>

tokens_keywords == <<Rule(Words(keyword_words, WordB), "Keyword")>>

tokens_types == <<Rule(Words(type_words, WordB), "Keyword.Type")>>

\* string_open with the affix group bound to no kind
string_open_affix_unbound ==
  ByGroupsTo(<<affix, Set({"\""})>>, <<"None", "String">>, "string")

string_open ==
  ByGroupsTo(<<affix, Set({"\""})>>, <<"String.Affix", "String">>, "string")

char_literal ==
  ByGroups(<<affix, Set({"'"}), char_body, Set({"'"})>>,
           <<"String.Affix", "String.Char", "String.Char", "String.Char">>)

\* tokens_statements with the identifier rule declared first
tokens_statements_ident_first ==
  <<Rule(ident, "Name"),
    Include("keywords"),
    Include("types"),
    string_open,
    char_literal,
    Rule(hex_float, "Number.Float"),
    Rule(exp_float, "Number.Float"),
    Rule(dec_float, "Number.Float"),
    Rule(hex_int, "Number.Hex"),
    Rule(bin_int, "Number.Bin"),
    Rule(oct_int, "Number.Oct"),
    Rule(dec_int, "Number.Integer"),
    Rule(operator, "Operator"),
    Rule(operator_word, "Operator.Word"),
    Rule(Set({"(", ")", "[", "]", ",", "."}), "Punctuation"),
    Rule(builtin, "Name.Builtin")>>

\* tokens_statements with the exponent rule declared after the plain
\* decimal float rule
tokens_statements_exponent_late ==
  <<Include("keywords"),
    Include("types"),
    string_open,
    char_literal,
    Rule(hex_float, "Number.Float"),
    Rule(dec_float, "Number.Float"),
    Rule(exp_float, "Number.Float"),
    Rule(hex_int, "Number.Hex"),
    Rule(bin_int, "Number.Bin"),
    Rule(oct_int, "Number.Oct"),
    Rule(dec_int, "Number.Integer"),
    Rule(operator, "Operator"),
    Rule(operator_word, "Operator.Word"),
    Rule(Set({"(", ")", "[", "]", ",", "."}), "Punctuation"),
    Rule(builtin, "Name.Builtin"),
    Rule(ident, "Name")>>

\* tokens_statements with the Operator rule declared before the number
\* rules
tokens_statements_operator_early ==
  <<Include("keywords"),
    Include("types"),
    string_open,
    char_literal,
    Rule(operator, "Operator"),
    Rule(hex_float, "Number.Float"),
    Rule(exp_float, "Number.Float"),
    Rule(dec_float, "Number.Float"),
    Rule(hex_int, "Number.Hex"),
    Rule(bin_int, "Number.Bin"),
    Rule(oct_int, "Number.Oct"),
    Rule(dec_int, "Number.Integer"),
    Rule(operator_word, "Operator.Word"),
    Rule(Set({"(", ")", "[", "]", ",", "."}), "Punctuation"),
    Rule(builtin, "Name.Builtin"),
    Rule(ident, "Name")>>

tokens_statements ==
  <<Include("keywords"),
    Include("types"),
    string_open,
    char_literal,
    Rule(hex_float, "Number.Float"),
    Rule(exp_float, "Number.Float"),
    Rule(dec_float, "Number.Float"),
    Rule(hex_int, "Number.Hex"),
    Rule(bin_int, "Number.Bin"),
    Rule(oct_int, "Number.Oct"),
    Rule(dec_int, "Number.Integer"),
    Rule(operator, "Operator"),
    Rule(operator_word, "Operator.Word"),
    Rule(Set({"(", ")", "[", "]", ",", "."}), "Punctuation"),
    Rule(builtin, "Name.Builtin"),
    Rule(ident, "Name")>>

\* tokens_string with the escape rule declared after the stray-backslash
\* rule
tokens_string_escape_last ==
  <<RuleTo(Set({"\""}), "String", "#pop"),
    Rule(Plus(NSet({"\\", "\"", "\n"})), "String"),
    Rule(BackslashNewline, "String"),
    Rule(Backslash, "String"),
    Rule(string_escape, "String.Escape")>>

\* tokens_string with a quote that pushes 'string' again
tokens_string_quote_pushes ==
  <<RuleTo(Set({"\""}), "String", "string"),
    Rule(string_escape, "String.Escape"),
    Rule(Plus(NSet({"\\", "\"", "\n"})), "String"),
    Rule(BackslashNewline, "String"),
    Rule(Backslash, "String")>>

tokens_string ==
  <<RuleTo(Set({"\""}), "String", "#pop"),
    Rule(string_escape, "String.Escape"),
    Rule(Plus(NSet({"\\", "\"", "\n"})), "String"),
    Rule(BackslashNewline, "String"),
    Rule(Backslash, "String")>>

\* tokens_root without its default
tokens_root_no_default ==
  <<Include("whitespace"), Include("keywords"), Include("types")>>

\* tokens_root with a default that stays in 'root'
tokens_root_default_root ==
  <<Include("whitespace"),
    Include("keywords"),
    Include("types"),
    Default("root")>>

\* tokens_root with the '#pop' rule of 'statement' in it
tokens_root_with_pop ==
  <<Include("whitespace"),
    Include("keywords"),
    Include("types"),
    RuleTo(Set({"{", ";"}), "Punctuation", "#pop"),
    Default("statement")>>

tokens_root ==
  <<Include("whitespace"),
    Include("keywords"),
    Include("types"),
    Default("statement")>>

tokens_statement ==
  <<Include("whitespace"),
    Include("statements"),
    Rule(Set({"}"}), "Punctuation"),
    RuleTo(Set({"{", ";"}), "Punctuation", "#pop")>>

tokens ==
  [whitespace |-> tokens_whitespace,
   keywords   |-> tokens_keywords,
   types      |-> tokens_types,
   statements |-> tokens_statements,
   string     |-> tokens_string,
   root       |-> tokens_root,
   statement  |-> tokens_statement]

(***************************************************************************)
(* The state table: every state's rule list with its includes expanded in  *)
(* place, in declared order.                                               *)
(***************************************************************************)
RECURSIVE Flatten(_)
Flatten(rules) ==
  IF rules = <<>> THEN <<>>
  ELSE IF Len(rules) = 1
    THEN IF rules[1].t = "include" THEN Flatten(tokens[rules[1].name])
         ELSE rules
    ELSE LET mid == Len(rules) \div 2
         IN  Flatten(SubSeq(rules, 1, mid))
               \o Flatten(SubSeq(rules, mid + 1, Len(rules)))

Flat ==
  [whitespace |-> Flatten(tokens.whitespace),
   keywords   |-> Flatten(tokens.keywords),
   types      |-> Flatten(tokens.types),
   statements |-> Flatten(tokens.statements),
   string     |-> Flatten(tokens.string),
   root       |-> Flatten(tokens.root),
   statement  |-> Flatten(tokens.statement)]

(***************************************************************************)
(* One rule against the text at the cursor.  The groups of the pattern are *)
(* matched left to right with backtracking; the result is the first way    *)
(* the whole pattern matches, as the end position of every group.          *)
(***************************************************************************)
NoMatch == [ok |-> FALSE, ends |-> <<>>]

RECURSIVE GroupEnds(_, _, _), GroupEndsFrom(_, _, _)

GroupEnds(groups, s, p) ==
  IF groups = <<>> THEN [ok |-> TRUE, ends |-> <<>>]
  ELSE GroupEndsFrom(groups, s, Ends(Head(groups), s, p))

GroupEndsFrom(groups, s, es) ==
  IF es = <<>> THEN NoMatch
  ELSE LET rest == GroupEnds(Tail(groups), s, Head(es))
       IN  IF rest.ok THEN [ok |-> TRUE, ends |-> <<Head(es)>> \o rest.ends]
           ELSE GroupEndsFrom(groups, s, Tail(es))

Matches(rule, s, p) == GroupEnds(rule.groups, s, p).ok

\* The rules of a state tried in order at cursor p: the index of the first
\* that matches and the ends of its groups; index 0 when none matches.  An
\* empty match is a match.
FirstMatch(state, s, p) ==
  LET rules == Flat[state]
      hits  == SelectSeq([j \in 1..Len(rules) |-> j],
                         LAMBDA j : Matches(rules[j], s, p))
  IN  IF hits = <<>> THEN [i |-> 0, ends |-> <<>>]
      ELSE [i |-> hits[1],
            ends |-> GroupEnds(rules[hits[1]].groups, s, p).ends]

(***************************************************************************)
(* Tokens.  A token is (kind, text, start offset).                         *)
(***************************************************************************)
Token(kind, s, from, to) ==
  [kind |-> kind, text |-> SubSeq(s, from + 1, to), start |-> from]

\* bygroups: one token per group that matched something, in group order;
\* a group with no kind (None) or with nothing matched yields no token
RECURSIVE GroupTokens(_, _, _, _, _)

\* GroupTokens with a token for every group with a kind, matched or not
GroupTokens_every_group(kinds, ends, i, s, from) ==
  IF i > Len(ends) THEN <<>>
  ELSE (IF kinds[i] # "None"
        THEN <<Token(kinds[i], s, from, ends[i])>> ELSE <<>>)
         \o GroupTokens(kinds, ends, i + 1, s, ends[i])

GroupTokens(kinds, ends, i, s, from) ==
  IF i > Len(ends) THEN <<>>
  ELSE (IF ends[i] > from /\ kinds[i] # "None"
        THEN <<Token(kinds[i], s, from, ends[i])>> ELSE <<>>)
         \o GroupTokens(kinds, ends, i + 1, s, ends[i])

\* the tokens a rule emits for a match at p whose groups end at `ends`
Emit(rule, ends, s, p) ==
  IF rule.t = "single" THEN <<Token(rule.kinds[1], s, p, ends[1])>>
  ELSE IF rule.t = "groups" THEN GroupTokens(rule.kinds, ends, 1, s, p)
  ELSE <<>>

\* where a match at p whose groups end at `ends` ends
MatchEnd(ends, p) == IF ends = <<>> THEN p ELSE ends[Len(ends)]

\* the state action of a rule, applied after its tokens are emitted
NewStack(st, new) ==
  CASE new = NoState -> st
    [] new = "#pop" -> IF Len(st) > 1 THEN SubSeq(st, 1, Len(st) - 1) ELSE st
    [] OTHER -> Append(st, new)

(***************************************************************************)
(* The scanner.  `stack` is the state stack, `pos` the cursor, `out` the   *)
(* tokens emitted so far; `hit` is the outcome of trying, in order, the    *)
(* rules of the state on top at the cursor; `last` records the step just   *)
(* taken.                                                                  *)
(***************************************************************************)
Top == stack[Len(stack)]

AtEnd == pos >= Len(input)

\* the rule the scanner is about to apply (meaningful when hit.i # 0)
HitRule == Flat[Top][hit.i]

\* The step being taken: the state on top before it, the index of the rule
\* applied in that state's flattened list (0: none matched), the cursor,
\* the stack and the number of tokens before it, and the new-state action
\* of the rule.
Step(kind) ==
  [kind |-> kind, state |-> Top, rule |-> hit.i, from |-> pos,
   stack |-> stack, n |-> Len(out),
   new |-> IF hit.i = 0 THEN NoState ELSE HitRule.new]

\* RuleStep that goes on with any rule that matches at the new cursor, not
\* with the first
RuleStep_any_rule ==
  /\ ~AtEnd
  /\ hit.i # 0
  /\ HitRule.t # "default"
  /\ out' = out \o Emit(HitRule, hit.ends, input, pos)
  /\ pos' = MatchEnd(hit.ends, pos)
  /\ stack' = NewStack(stack, HitRule.new)
  /\ last' = Step("rule")
  /\ \E j \in 0..Len(Flat[stack'[Len(stack')]]) :
       /\ j = 0 => FirstMatch(stack'[Len(stack')], input, pos').i = 0
       /\ j # 0 => Matches(Flat[stack'[Len(stack')]][j], input, pos')
       /\ hit' = [i |-> j,
                  ends |-> IF j = 0 THEN <<>>
                           ELSE GroupEnds(Flat[stack'[Len(stack')]][j].groups,
                                          input, pos').ends]
  /\ UNCHANGED input

\* a rule with a pattern matched: emit its tokens, advance, change state
RuleStep ==
  /\ ~AtEnd
  /\ hit.i # 0
  /\ HitRule.t # "default"
  /\ out' = out \o Emit(HitRule, hit.ends, input, pos)
  /\ pos' = MatchEnd(hit.ends, pos)
  /\ stack' = NewStack(stack, HitRule.new)
  /\ last' = Step("rule")
  /\ hit' = FirstMatch(stack'[Len(stack')], input, pos')
  /\ UNCHANGED input

\* the first rule to match is the state's default: only change state
DefaultStep ==
  /\ ~AtEnd
  /\ hit.i # 0
  /\ HitRule.t = "default"
  /\ stack' = NewStack(stack, HitRule.new)
  /\ last' = Step("default")
  /\ hit' = FirstMatch(stack'[Len(stack')], input, pos)
  /\ UNCHANGED <<input, pos, out>>

\* ErrorStep that also drops every state above 'root'
ErrorStep_reset ==
  /\ ~AtEnd
  /\ hit.i = 0
  /\ out' = Append(out, Token("Error", input, pos, pos + 1))
  /\ pos' = pos + 1
  /\ stack' = <<"root">>
  /\ last' = Step("error")
  /\ hit' = FirstMatch("root", input, pos')
  /\ UNCHANGED input

\* no rule matched: one Error token for the character at the cursor
ErrorStep ==
  /\ ~AtEnd
  /\ hit.i = 0
  /\ out' = Append(out, Token("Error", input, pos, pos + 1))
  /\ pos' = pos + 1
  /\ last' = Step("error")
  /\ hit' = FirstMatch(Top, input, pos')
  /\ UNCHANGED <<input, stack>>

Next == RuleStep \/ DefaultStep \/ ErrorStep

(***************************************************************************)
(* The texts scanned: every concatenation of at most MaxPieces pieces of   *)
(* one of four families.  A family holds single characters and a few       *)
(* longer fragments, so that short concatenations reach the keywords, the  *)
(* literals and the comments of the language.                              *)
(***************************************************************************)
MaxPieces == 3

WordPieces ==
  {<<"I", "F">>, <<"E", "X", "P">>, <<"T">>, <<"$">>, <<" ">>, <<"@">>,
   <<"D", "A", "T", "E">>, <<"_", "A", "N", "D", "_", "T", "I", "M", "E">>}

StringPieces ==
  {<<"\"">>, <<"\\">>, <<"\\", "n">>, <<"\n">>, <<"u">>, <<"'">>, <<";">>}

CommentPieces ==
  {<<"(", "*">>, <<"*", ")">>, <<"/", "*">>, <<"*", "/">>, <<"/">>,
   <<"\n">>, <<"a">>}

NumberPieces ==
  {<<"-">>, <<"1">>, <<"0">>, <<".">>, <<"e">>, <<"x">>, <<"1", ".", "5">>}

RECURSIVE Concat(_)
Concat(q) == IF q = <<>> THEN <<>> ELSE Head(q) \o Concat(Tail(q))

Texts(pieces) ==
  {Concat(q) : q \in UNION {[1..n -> pieces] : n \in 0..MaxPieces}}

Inputs ==
  Texts(WordPieces) \cup Texts(StringPieces) \cup Texts(CommentPieces)
    \cup Texts(NumberPieces)

Init ==
  /\ input \in Inputs
  /\ pos = 0
  /\ stack = <<"root">>
  /\ out = <<>>
  /\ last = [kind |-> "init", state |-> "root", rule |-> 0, from |-> 0,
             stack |-> <<"root">>, n |-> 0, new |-> NoState]
  /\ hit = FirstMatch("root", input, 0)

Spec == Init /\ [][Next]_vars

(***************************************************************************)
(* Properties.                                                             *)
(***************************************************************************)
RECURSIVE TokenTexts(_)
TokenTexts(toks) ==
  IF toks = <<>> THEN <<>> ELSE Head(toks).text \o TokenTexts(Tail(toks))

Consumed == SubSeq(input, 1, pos)

LastToken == out[Len(out)]

\* the rule the step just taken applied (when last.rule # 0)
LastRule == Flat[last.state][last.rule]

\* C1: the texts of the tokens emitted so far, concatenated in emission
\* order, are exactly the text consumed so far, and every token starts where
\* the one before it ends; at end-of-input the concatenation is the input.
C1_Reconstructs ==
  /\ TokenTexts(out) = Consumed
  /\ \A k \in DOMAIN out :
       out[k].start = (IF k = 1 THEN 0
                       ELSE out[k - 1].start + Len(out[k - 1].text))
  /\ AtEnd => TokenTexts(out) = input

\* C1 witness: a finished scan that emitted a String.Affix token (a grouped
\* rule) and an Error token
C1_Witness ==
  /\ AtEnd
  /\ \E k \in DOMAIN out : out[k].kind = "String.Affix"
  /\ \E k \in DOMAIN out : out[k].kind = "Error"

\* a step that is allowed not to move the cursor: the default of 'root'
ZeroWidthDefault ==
  /\ pos' = pos
  /\ Top = "root"
  /\ stack' = Append(stack, "statement")
  /\ out' = out

\* what is left to do: twice the characters not yet consumed, plus one
\* while the default transition out of 'root' may still be taken
Rank == 2 * (Len(input) - pos) + (IF Top = "root" THEN 1 ELSE 0)

\* C2: every step advances the cursor by at least one character or is the
\* zero-width default transition root -> statement; every step lowers Rank,
\* a natural number, so no run of steps is infinite or keeps the cursor in
\* place; and before end-of-input a step is always possible (CanStep is
\* the disjunction of the guards of the three steps).
CanStep == ~AtEnd /\ (hit.i = 0 \/ hit.i \in DOMAIN Flat[Top])

C2_Terminates ==
  /\ [][(pos' > pos) \/ ZeroWidthDefault]_vars
  /\ [][Rank' < Rank /\ Rank' >= 0]_vars
  /\ [](AtEnd \/ CanStep)

\* C2 witness: a finished scan that took a default transition and emitted an
\* Error token
C2_Witness ==
  /\ AtEnd
  /\ Len(stack) > 1
  /\ \E k \in DOMAIN out : out[k].kind = "Error"

\* C3: the stack is never empty and its bottom is 'root'; a '#pop' rule
\* fires only with at least two states on the stack and removes the top one.
C3_StackBottom ==
  /\ Len(stack) >= 1
  /\ stack[1] = "root"
  /\ last.new = "#pop" =>
       /\ Len(last.stack) >= 2
       /\ stack = SubSeq(last.stack, 1, Len(last.stack) - 1)

\* C3 witness: the ';' rule of 'statement' has just popped back to 'root'
C3_Witness ==
  /\ last.new = "#pop"
  /\ last.state = "statement"
  /\ stack = <<"root">>

\* the step just taken tried the rules of its state at last.from
Stepped == last.kind # "init"

\* rule j of the state of the step just taken matches where the step began
MatchedThen(j) == Matches(Flat[last.state][j], input, last.from)

\* the word w stands at cursor p and a word boundary follows it
WordHere(w, p) ==
  StartsWith(input, p, w) /\ ~IsWordAt(input, p + Len(w) + 1)

\* the words of the 'keywords' and 'types' lists
AllWords == Range(keyword_words) \cup Range(type_words)

\* C4: the rule a step applies is the first rule of the active state's
\* flattened list that matches at the cursor (no rule before it matches);
\* in 'statement', a word of the keyword or type list at the cursor, which
\* the identifier rule matches too, is emitted as Keyword / Keyword.Type,
\* never as Name, and no Name token ever spells such a word.
C4_FirstRuleWins ==
  /\ last.kind \in {"rule", "default"} =>
       \A j \in 1..(last.rule - 1) : ~MatchedThen(j)
  /\ (Stepped /\ last.state = "statement") =>
       \A w \in AllWords :
         WordHere(w, last.from) =>
           /\ LastToken.kind \in {"Keyword", "Keyword.Type"}
           /\ LastToken.text = w
           /\ LastToken.start = last.from
  /\ \A k \in DOMAIN out : out[k].kind = "Name" => out[k].text \notin AllWords

\* C4 witness: in 'statement' a Keyword was emitted where the identifier
\* rule, declared later, matches too
C4_Witness ==
  /\ last.kind = "rule"
  /\ last.state = "statement"
  /\ LastToken.kind = "Keyword"
  /\ Ends(ident, input, last.from) # <<>>

\* C5: an Error step happens only in 'statement' or 'string', only when no
\* rule of that state matches at the cursor; it emits exactly one Error
\* token holding the one character at the cursor and advances the cursor by
\* one; in 'root' some rule always matches; and the scan goes on after it.
C5_ErrorToken ==
  /\ last.kind = "error" =>
       /\ last.state \in {"statement", "string"}
       /\ \A j \in DOMAIN Flat[last.state] : ~MatchedThen(j)
       /\ pos = last.from + 1
       /\ Len(out) = last.n + 1
       /\ LastToken =
            [kind |-> "Error", text |-> <<input[pos]>>, start |-> last.from]
       /\ AtEnd \/ CanStep
  /\ (~AtEnd /\ hit.i = 0) => Top \in {"statement", "string"}

\* C5 witness: an Error token in 'string' after an Error token in
\* 'statement'
C5_Witness ==
  /\ last.kind = "error"
  /\ last.state = "string"
  /\ out[1].kind = "Error"
  /\ Len(out) >= 3

\* C6: the default transition is taken from 'root' before end-of-input when
\* no whitespace, keyword or type rule matches; it pushes 'statement', emits
\* nothing and leaves the cursor; the step after it is not a default
\* transition and advances the cursor by at least one character.
C6_DefaultStep ==
  /\ last.kind = "default" =>
       /\ last.state = "root"
       /\ \A j \in 1..(last.rule - 1) : ~MatchedThen(j)
       /\ stack = Append(last.stack, "statement")
       /\ pos = last.from
       /\ pos < Len(input)
       /\ Len(out) = last.n
       /\ hit.i = 0 \/ (HitRule.t # "default" /\ MatchEnd(hit.ends, pos) > pos)
  /\ (Top = "root" /\ ~AtEnd /\ hit.i # 0 /\ HitRule.t # "default") =>
       MatchEnd(hit.ends, pos) > pos

\* C6 witness: after the default transition no rule of 'statement' matches,
\* so the next step is a one-character Error token
C6_Witness == last.kind = "default" /\ hit.i = 0

\* the step just taken emitted a Keyword or Keyword.Type token
KeywordStep ==
  /\ last.kind = "rule"
  /\ LastRule.kinds \in {<<"Keyword">>, <<"Keyword.Type">>}

\* C7 (as claimed): a Keyword / Keyword.Type token is never emitted where
\* the identifier rule would match a longer text than the token.
C7_NoKeywordInsideIdentifier ==
  KeywordStep =>
    LET e == Ends(ident, input, last.from)
    IN  e = <<>> \/ e[1] <= pos

\* v is a proper prefix of w
ProperPrefix(v, w) == Len(v) < Len(w) /\ SubSeq(w, 1, Len(v)) = v

\* C8: where a word of the keyword (type) list that has a shorter entry of
\* the same list as a proper prefix stands at the cursor, followed by a word
\* boundary, the step emits the whole word as one Keyword (Keyword.Type)
\* token and nothing else.
LongestOf(list, kind) ==
  \A w \in Range(list) :
    (/\ WordHere(w, last.from)
     /\ \E v \in Range(list) : ProperPrefix(v, w)) =>
      /\ Len(out) = last.n + 1
      /\ LastToken = [kind |-> kind, text |-> w, start |-> last.from]
      /\ pos = last.from + Len(w)

C8_LongestWord ==
  (Stepped /\ last.state \in {"root", "statement"}) =>
    /\ LongestOf(keyword_words, "Keyword")
    /\ LongestOf(type_words, "Keyword.Type")

\* C8 witness: EXPT, of which EXP is a prefix, emitted as one Keyword
C8_Witness ==
  /\ last.kind = "rule"
  /\ LastToken = [kind |-> "Keyword", text |-> <<"E", "X", "P", "T">>,
                  start |-> last.from]

\* C9 (as claimed): a text that opens a block comment with (* and has no
\* closing *) after it is one Comment.Multiline token to end-of-input.
C9_UnterminatedComment ==
  (/\ AtEnd
   /\ StartsWith(input, 0, <<"(", "*">>)
   /\ \A i \in 3..(Len(input) - 1) : ~(input[i] = "*" /\ input[i + 1] = ")"))
    => out = <<[kind |-> "Comment.Multiline", text |-> input, start |-> 0]>>

\* C10: in 'statement' a '"' at the cursor is emitted as String and pushes
\* 'string' on [root, statement]; in 'string' a recognised backslash escape
\* at the cursor is emitted whole as one String.Escape token and leaves the
\* stack alone; in 'string' a '"' at the cursor (no escape holds it: an
\* escape is consumed whole) is emitted as String and pops back to
\* [root, statement], the stack before the opening quote.
QuoteAt(p) == p < Len(input) /\ input[p + 1] = "\""

C10_StringState ==
  /\ (Stepped /\ last.state = "statement" /\ QuoteAt(last.from)) =>
       /\ LastToken = [kind |-> "String", text |-> <<"\"">>,
                       start |-> last.from]
       /\ last.stack = <<"root", "statement">>
       /\ stack = <<"root", "statement", "string">>
  /\ (Stepped /\ last.state = "string") =>
       /\ last.stack = <<"root", "statement", "string">>
       /\ Ends(string_escape, input, last.from) # <<>> =>
            /\ Len(out) = last.n + 1
            /\ LastToken.kind = "String.Escape"
            /\ LastToken.start = last.from
            /\ pos = Ends(string_escape, input, last.from)[1]
            /\ stack = last.stack
       /\ QuoteAt(last.from) =>
            /\ LastToken = [kind |-> "String", text |-> <<"\"">>,
                            start |-> last.from]
            /\ stack = <<"root", "statement">>
  /\ \A k \in DOMAIN out :
       out[k].kind = "String.Escape" =>
         out[k].text[1] = "\\" /\ Len(out[k].text) >= 2

\* C10 witness: the closing quote of a string that held an escape
C10_Witness ==
  /\ last.new = "#pop"
  /\ last.state = "string"
  /\ \E k \in DOMAIN out : out[k].kind = "String.Escape"

\* the tokens the step just taken emitted
StepTokens == SubSeq(out, last.n + 1, Len(out))

\* the step just taken applied one of the two grouped rules
GroupedStep ==
  /\ last.kind = "rule"
  /\ LastRule \in {string_open, char_literal}

\* the character at cursor p is a quote: no affix stands before it
NoAffixAt(p) == input[p + 1] \in {"\"", "'"}

\* C11: no token with empty text is ever emitted; a grouped rule (string
\* opening, character literal) applied where no affix stands emits no
\* String.Affix token, only the tokens of the groups that matched (one for
\* the string opening, three for the character literal), the first at the
\* cursor; applied where an affix stands, its first token is the affix.
C11_NoTokenForUnmatchedGroup ==
  /\ \A k \in DOMAIN out : out[k].text # <<>>
  /\ (GroupedStep /\ NoAffixAt(last.from)) =>
       /\ \A k \in DOMAIN StepTokens : StepTokens[k].kind # "String.Affix"
       /\ Len(StepTokens) = (IF LastRule = string_open THEN 1 ELSE 3)
       /\ StepTokens[1].start = last.from
  /\ (GroupedStep /\ ~NoAffixAt(last.from)) =>
       /\ StepTokens[1].kind = "String.Affix"
       /\ StepTokens[1].start = last.from
       /\ Len(StepTokens) = (IF LastRule = string_open THEN 2 ELSE 4)

\* C11 witness: a character literal without affix has just been emitted
C11_Witness ==
  /\ GroupedStep
  /\ LastRule = char_literal
  /\ NoAffixAt(last.from)

\* a decimal literal with an exponent, as the claim describes it:
\* digits, optionally '.' and digits, 'e' or 'E', optional sign, digits
ExponentLiteral ==
  Cat(<<Plus(Set(Digit)), Opt(Cat(<<Set({"."}), Plus(Set(Digit))>>)),
        Set({"e", "E"}), Opt(Set({"+", "-"})), Plus(Set(Digit))>>)

\* where the longest such literal at cursor p ends
ExponentEnd(p) == Ends(ExponentLiteral, input, p)[1]

\* the step just taken began in 'statement' at such a literal
ExponentStep ==
  /\ Stepped
  /\ last.state = "statement"
  /\ Ends(ExponentLiteral, input, last.from) # <<>>

\* C12: a step taken in 'statement' with an exponent literal at the cursor
\* emits exactly one token, a Number.Float that starts at the cursor and
\* spans the whole literal (and at most one suffix letter after it).
C12_ExponentFloat ==
  ExponentStep =>
    /\ last.kind = "rule"
    /\ Len(out) = last.n + 1
    /\ LastToken.kind = "Number.Float"
    /\ LastToken.start = last.from
    /\ pos >= ExponentEnd(last.from)
    /\ pos <= ExponentEnd(last.from) + 1

\* C12 witness: a literal with a fraction and an exponent was emitted and
\* ended the input
C12_Witness ==
  /\ ExponentStep
  /\ AtEnd
  /\ \E i \in DOMAIN LastToken.text : LastToken.text[i] = "."

\* A configuration of a scan: the state stack, the cursor and the tokens
\* emitted.  ScanStep(c) is the configuration after the one step the
\* scanner takes from c; at end-of-input there is none and c stays.
ScanStep(c) ==
  LET top  == c.stack[Len(c.stack)]
      h    == FirstMatch(top, input, c.pos)
      rule == Flat[top][h.i]
  IN  CASE c.pos >= Len(input) -> c
        [] h.i = 0 ->
             [stack |-> c.stack, pos |-> c.pos + 1,
              out |-> Append(c.out, Token("Error", input, c.pos, c.pos + 1))]
        [] OTHER ->
             [stack |-> NewStack(c.stack, rule.new),
              pos |-> MatchEnd(h.ends, c.pos),
              out |-> c.out \o Emit(rule, h.ends, input, c.pos)]

\* at most n steps from c, one after the other, until the scan is over
RECURSIVE ScanSteps(_, _)
ScanSteps(c, n) ==
  IF n = 0 \/ c.pos >= Len(input) THEN c
  ELSE ScanSteps(ScanStep(c), n - 1)

\* a second scan of the input from [root]: no scan takes more than two
\* steps per character
Rescan ==
  ScanSteps([stack |-> <<"root">>, pos |-> 0, out |-> <<>>],
            2 * Len(input))

C14_StackShapes ==
  /\ stack \in {<<"root">>, <<"root", "statement">>,
                <<"root", "statement", "string">>}
  /\ Len(stack) <= 3

\* C14 witness: a step taken at depth 3 that stays at depth 3 (an escape
\* inside a string)
C14_Witness ==
  /\ last.kind = "rule"
  /\ Len(last.stack) = 3
  /\ Len(stack) = 3
  /\ LastToken.kind = "String.Escape"

\* the step just taken applied the open-until-EOF comment rule
OpenCommentStep ==
  /\ last.kind = "rule"
  /\ LastRule = Rule(comment_open, "Comment.Multiline")

\* where the opening delimiter (a '/', an optional line continuation, a
\* '*') of the comment at cursor p ends
OpenerEnd(p) ==
  Ends(Cat(<<Set({"/"}), Opt(BackslashNewline), Set({"*"})>>), input, p)[1]

\* the offsets after cursor p at which a closing '*/' starts
ClosersAfter(p) ==
  {i \in p..(Len(input) - 2) : input[i + 1] = "*" /\ input[i + 2] = "/"}

\* C15: a token of the open-until-EOF rule runs to the end of the input
\* only when no '*/' follows its opening delimiter; otherwise it ends just
\* after the first '*/' that does.
C15_OpenCommentStopsAtDelimiter ==
  OpenCommentStep =>
    LET closers == ClosersAfter(OpenerEnd(last.from))
    IN  IF closers = {} THEN pos = Len(input)
        ELSE pos = 2 + CHOOSE i \in closers : \A j \in closers : i <= j

\* the step just taken applied the delimited '(*' ... '*)' comment rule
DelimitedCommentStep ==
  /\ last.kind = "rule"
  /\ LastRule = Rule(comment_multiline, "Comment.Multiline")

\* where the opening delimiter (a '(', an optional line continuation, a
\* '*') of the comment at cursor p ends
ParenOpenerEnd(p) ==
  Ends(Cat(<<Set({"("}), Opt(BackslashNewline), Set({"*"})>>), input, p)[1]

\* the offsets after cursor p at which a closing '*)' starts
ParenClosersAfter(p) ==
  {i \in p..(Len(input) - 2) : input[i + 1] = "*" /\ input[i + 2] = ")"}

\* C16: a token of the delimited comment rule ends just after the first
\* '*)' that follows its opening '(*'.
C16_CommentEndsAtFirstCloser ==
  DelimitedCommentStep =>
    LET closers == ParenClosersAfter(ParenOpenerEnd(last.from))
    IN  /\ closers # {}
        /\ pos = 2 + CHOOSE i \in closers : \A j \in closers : i <= j

\* a newline stands at cursor p and no backslash stands before it
BareNewlineAt(p) ==
  /\ p < Len(input)
  /\ input[p + 1] = "\n"
  /\ (p = 0 \/ input[p] # "\\")

\* C17: a step on the no-match path emits one Error token of one character
\* at the cursor, advances the cursor by one and leaves the stack as it
\* was; a step taken in 'string' at a newline with no backslash before it
\* is such a step, and leaves the stack at [root, statement, string].
C17_ErrorKeepsStack ==
  /\ last.kind = "error" =>
       /\ stack = last.stack
       /\ pos = last.from + 1
       /\ Len(out) = last.n + 1
       /\ LastToken = Token("Error", input, last.from, last.from + 1)
  /\ (Stepped /\ last.state = "string" /\ BareNewlineAt(last.from)) =>
       /\ last.kind = "error"
       /\ LastToken.text = <<"\n">>
       /\ stack = <<"root", "statement", "string">>

\* C17 witness: after the Error token of a newline in a string, the next
\* step was taken in 'string' again
C17_Witness ==
  /\ last.kind = "rule"
  /\ last.state = "string"
  /\ Len(out) >= 2
  /\ out[Len(out) - 1] = [kind |-> "Error", text |-> <<"\n">>,
                          start |-> last.from - 1]

NumberKinds ==
  {"Number.Float", "Number.Hex", "Number.Bin", "Number.Oct", "Number.Integer"}

\* the step just taken began in 'statement' at a '-' that a decimal digit
\* follows immediately
MinusDigitStep ==
  /\ Stepped
  /\ last.state = "statement"
  /\ last.from + 2 <= Len(input)
  /\ input[last.from + 1] = "-"
  /\ input[last.from + 2] \in Digit

\* C18: a step taken in 'statement' at a '-' immediately followed by a
\* decimal digit emits exactly one token, of a Number kind (never
\* Operator), that starts at the '-' and holds the digit too.
C18_MinusDigitIsNumber ==
  MinusDigitStep =>
    /\ last.kind = "rule"
    /\ Len(out) = last.n + 1
    /\ LastToken.kind \in NumberKinds
    /\ LastToken.kind # "Operator"
    /\ LastToken.start = last.from
    /\ LastToken.text[1] = "-"
    /\ Len(LastToken.text) >= 2

\* C18 witness: a '-' that follows another token directly was emitted with
\* its digits as a Number.Float
C18_Witness ==
  /\ MinusDigitStep
  /\ last.from > 0
  /\ LastToken.kind = "Number.Float"
====
